---- MODULE Spec2Model ----
(***************************************************************************)
(* A model of two components of 2c-fast-bc:                                *)
(*   - brandes/VertexInfo.h: the border shortest-path profile of a vertex  *)
(*     (a width, a vector of lengths, a vector of counts) and its algebra; *)
(*   - louvain/LouvainEvaluator.h: the parallel multilevel Louvain driver  *)
(*     (fan-out of `parallelism` attempts, selection, aggregation with     *)
(*     renumbering, the level loop and the final grouping).                *)
(* C++ indices are 0-based; the vectors are modelled as TLA+ sequences, so *)
(* the element with C++ index i is element i + 1 of the sequence.          *)
(***************************************************************************)
EXTENDS Integers, Sequences, FiniteSets, TLC

\* ------------------------------------------------------------------ bounds
\* Largest profile width (borderCount) explored.
MaxBorders == 2
\* Largest value of the modelled signed numeric types V and W.
WMax == 1
\* Most nodes of an input graph.
MaxNodes == 2
\* Most levels of the level loop that are started.
MaxLevel == 2

\* The attempts of a level. LouvainEvaluator::parallelism is 4 in the source;
\* two attempts already give the overlapping writes and the ties of selection.
parallelism == 2

\* ------------------------------------------------- the numeric types V, W
\* A signed type of finite width: WMin..WMax, as many values below 0 as
\* from 0 up, arithmetic modulo the number of values.
WMin == -WMax - 1
WMod == WMax - WMin + 1
WVals == WMin..WMax

\* Two's complement wrap-around of a mathematical integer into the type.
Wrap(x) == ((x - WMin) % WMod) + WMin

AddW(a, b) == Wrap(a + b)
SubW(a, b) == Wrap(a - b)
MulW(a, b) == Wrap(a * b)

Abs(x) == IF x < 0 THEN -x ELSE x

\* C++ integer division truncates toward zero; the quotient is defined when
\* the divisor is not 0 and the quotient is representable.
DivDefined(a, b) == b # 0 /\ ~(a = WMin /\ b = -1)

\* The quotient where it is defined; where it is not (undefined behaviour) the
\* value a non-trapping divider leaves: 0 for a zero divisor, the wrapped
\* quotient for the overflow.
DivW(a, b) ==
  IF b = 0 THEN 0
  ELSE IF (a < 0) = (b < 0) THEN Wrap(Abs(a) \div Abs(b))
       ELSE Wrap(-(Abs(a) \div Abs(b)))

\* --------------------------------------------------------------- state
VARIABLES
  borderCount,      \* VertexInfo::_borderCount
  borderSPLength,   \* VertexInfo::_borderSPLength
  borderSPCount,    \* VertexInfo::_borderSPCount
  call,             \* the kind of member function called last
  outcome,          \* how that call ended
  other,            \* the right-hand operand handed to the comparisons
  cmp               \* the last comparison made and the value it returned

pvars == <<borderCount, borderSPLength, borderSPCount, call, outcome, other, cmp>>

VARIABLES
  nb_nodes,         \* g.nb_nodes: the nodes of the current graph
  n2c,              \* evaluateGraph's n2c: original vertex -> community
  p,                \* the attempts p[i]: what one_level() and modularity() gave
  improvements,     \* std::vector<bool> improvements
  modularities,     \* std::vector<double> modularities
  tpc,              \* where each thread of the parallel for is
  word,             \* the storage word of improvements each thread has loaded
  pc,               \* where evaluateGraph is
  best_i,           \* the best_i declared inside the loop
  outer_best_i,     \* the best_i declared before the loop
  improvement,
  mod,
  new_mod,
  level,
  used,             \* the attempt and the assignment the aggregation read
  result            \* what build_result returned

lvars == <<nb_nodes, n2c, p, improvements, modularities, tpc, word, pc, best_i,
           outer_best_i, improvement, mod, new_mod, level, used, result>>

vars == <<pvars, lvars>>

\* No comparison made yet.
NoCmp == [op |-> "none", val |-> 0]
NoOther == [n |-> 0, len |-> <<>>, cnt |-> <<>>]

\* No evaluateGraph is running (the profile specifications).
NoRun ==
  /\ nb_nodes = 0 /\ n2c = <<>> /\ p = <<>> /\ improvements = <<>>
  /\ modularities = <<>> /\ tpc = <<>> /\ word = <<>> /\ pc = "none"
  /\ best_i = 0 /\ outer_best_i = 0 /\ improvement = FALSE /\ mod = 0
  /\ new_mod = 0 /\ level = 0 /\ used = [attempt |-> -1, n2c |-> <<>>]
  /\ result = <<>>

\* No profile is in use (the evaluateGraph specifications).
NoProfile ==
  /\ borderCount = 0 /\ borderSPLength = <<>> /\ borderSPCount = <<>>
  /\ call = "none" /\ outcome = "ok" /\ other = NoOther /\ cmp = NoCmp

\* ----------------------------------------------- VertexInfo: operands
Idx == (-1)..(MaxBorders + 1)

\* How a call ends: "ok" (returned), "out_of_range" (threw std::out_of_range),
\* "wild" (returned after an access outside the vector), "crash" (the process
\* was stopped).
Outcomes == {"ok", "out_of_range", "wild", "crash"}

Zeros(n) == [i \in 1..n |-> 0]

\* The profiles handed in as the source of a copy, an assignment or an
\* elementwise operation: width n, lengths a, a+1, ... and counts b, b-1, ...
Operand(n, a, b) ==
  [n |-> n,
   len |-> [i \in 1..n |-> Wrap(a + (i - 1))],
   cnt |-> [i \in 1..n |-> Wrap(b - (i - 1))]]

InVals == {-1, 0, 1}

\* The values handed to the setters.
SetVals == {WMin, 0, WMax}

Operands == {Operand(n, a, -a) : n \in 0..MaxBorders, a \in {-1, 1}}

\* An assignment that forgets to resize the vectors.
ResizeForgotten(s, n) == s

\* std::vector::resize(n): keeps the first elements, value-initialises new ones.
Resize(s, n) == [i \in 1..n |-> IF i <= Len(s) THEN s[i] ELSE 0]

\* The checked condition of the four accessors.
InRangeCheck(storeIndex) == storeIndex < borderCount

\* What the accessors' condition is there to establish: the index is one of
\* the vector's elements.
ValidIndex(storeIndex, v) == 0 <= storeIndex /\ storeIndex < Len(v)

Alive == outcome # "crash"

Done(op, how) ==
  /\ call' = op
  /\ outcome' = how
  /\ UNCHANGED <<other, cmp>>
  /\ UNCHANGED lvars

Crash(op) ==
  /\ UNCHANGED <<borderCount, borderSPLength, borderSPCount>>
  /\ Done(op, "crash")

\* ----------------------------------------------- VertexInfo: construction
VertexInfoInit ==
  /\ NoRun
  /\ borderCount \in 0..MaxBorders
  /\ borderSPLength = Zeros(borderCount)
  /\ borderSPCount = Zeros(borderCount)
  /\ call = "VertexInfo"
  /\ outcome = "ok"
  /\ other = NoOther
  /\ cmp = NoCmp

\* VertexInfo(const VertexInfo<N, E>& copy): the object is built anew.
CopyConstruct(copy) ==
  /\ Alive
  /\ borderCount' = copy.n
  /\ borderSPLength' = [i \in 1..copy.n |-> Wrap(copy.len[i])]
  /\ borderSPCount' = [i \in 1..copy.n |-> Wrap(copy.cnt[i])]
  /\ Done("VertexInfo", "ok")

\* operator=(const VertexInfo<N, E>& other)
Assign(src) ==
  /\ Alive
  /\ LET n == src.n
         l == IF borderCount # n THEN Resize(borderSPLength, n) ELSE borderSPLength
         c == IF borderCount # n THEN Resize(borderSPCount, n) ELSE borderSPCount
     IN /\ borderCount' = n
        /\ borderSPLength' = [i \in 1..Len(l) |-> IF i <= n THEN Wrap(src.len[i]) ELSE l[i]]
        /\ borderSPCount' = [i \in 1..Len(c) |-> IF i <= n THEN Wrap(src.cnt[i]) ELSE c[i]]
  /\ Done("operator=", "ok")

\* ----------------------------------------------- VertexInfo: accessors
\* An access through an index below 0 passes the accessors' check and reaches
\* std::vector::operator[] outside the vector: undefined behaviour. A write
\* may land outside the modelled state, land on an element of either vector,
\* or stop the process; a read may yield any value or stop the process.
WildWrite(op, value) ==
  \/ /\ UNCHANGED <<borderCount, borderSPLength, borderSPCount>>
     /\ Done(op, "wild")
  \/ /\ \E j \in 1..Len(borderSPLength) :
          borderSPLength' = [borderSPLength EXCEPT ![j] = value]
     /\ UNCHANGED <<borderCount, borderSPCount>>
     /\ Done(op, "wild")
  \/ /\ \E j \in 1..Len(borderSPCount) :
          borderSPCount' = [borderSPCount EXCEPT ![j] = value]
     /\ UNCHANGED <<borderCount, borderSPLength>>
     /\ Done(op, "wild")
  \/ Crash(op)

WildRead(op) ==
  \/ /\ UNCHANGED <<borderCount, borderSPLength, borderSPCount>>
     /\ Done(op, "wild")
  \/ Crash(op)

OutOfRange(op) ==
  /\ UNCHANGED <<borderCount, borderSPLength, borderSPCount>>
  /\ Done(op, "out_of_range")

setBorderSPLength(storeIndex, length) ==
  /\ Alive
  /\ IF InRangeCheck(storeIndex)
     THEN IF ValidIndex(storeIndex, borderSPLength)
          THEN /\ borderSPLength' = [borderSPLength EXCEPT ![storeIndex + 1] = length]
               /\ UNCHANGED <<borderCount, borderSPCount>>
               /\ Done("accessor", "ok")
          ELSE WildWrite("accessor", length)
     ELSE OutOfRange("accessor")

getBorderSPLength(storeIndex) ==
  /\ Alive
  /\ IF InRangeCheck(storeIndex)
     THEN IF ValidIndex(storeIndex, borderSPLength)
          THEN /\ UNCHANGED <<borderCount, borderSPLength, borderSPCount>>
               /\ Done("accessor", "ok")
          ELSE WildRead("accessor")
     ELSE OutOfRange("accessor")

setBorderSPCount(storeIndex, count) ==
  /\ Alive
  /\ IF InRangeCheck(storeIndex)
     THEN IF ValidIndex(storeIndex, borderSPCount)
          THEN /\ borderSPCount' = [borderSPCount EXCEPT ![storeIndex + 1] = count]
               /\ UNCHANGED <<borderCount, borderSPLength>>
               /\ Done("accessor", "ok")
          ELSE WildWrite("accessor", count)
     ELSE OutOfRange("accessor")

getBorderSPCount(storeIndex) ==
  /\ Alive
  /\ IF InRangeCheck(storeIndex)
     THEN IF ValidIndex(storeIndex, borderSPCount)
          THEN /\ UNCHANGED <<borderCount, borderSPLength, borderSPCount>>
               /\ Done("accessor", "ok")
          ELSE WildRead("accessor")
     ELSE OutOfRange("accessor")

\* ------------------------------------- VertexInfo: minimum, normalize, reset
\* std::min_element over the lengths: the value of the first smallest element.
MinElement(s) == CHOOSE m \in {s[i] : i \in 1..Len(s)} : \A i \in 1..Len(s) : m <= s[i]

MinBorderSPLength(n, lengths) == IF n = 0 THEN 0 ELSE MinElement(lengths)

getMinBorderSPLength ==
  /\ Alive
  /\ UNCHANGED <<borderCount, borderSPLength, borderSPCount>>
  /\ Done("query", "ok")

\* A normalize() that subtracts the first length instead of the minimum.
NormalizedByFirst(n, lengths) ==
  [i \in 1..Len(lengths) |-> IF i <= n THEN SubW(lengths[i], lengths[1]) ELSE lengths[i]]

\* The lengths normalize() leaves: each of the first n minus the minimum.
Normalized(n, lengths) ==
  LET min == MinBorderSPLength(n, lengths)
  IN [i \in 1..Len(lengths) |-> IF i <= n THEN SubW(lengths[i], min) ELSE lengths[i]]

normalize ==
  /\ Alive
  /\ borderSPLength' = Normalized(borderCount, borderSPLength)
  /\ UNCHANGED <<borderCount, borderSPCount>>
  /\ Done("normalize", "ok")

\* std::vector::assign(n, 0)
reset ==
  /\ Alive
  /\ borderSPLength' = Zeros(borderCount)
  /\ borderSPCount' = Zeros(borderCount)
  /\ UNCHANGED borderCount
  /\ Done("reset", "ok")

borders ==
  /\ Alive
  /\ UNCHANGED <<borderCount, borderSPLength, borderSPCount>>
  /\ Done("query", "ok")

\* ----------------------------------------------- VertexInfo: arithmetic
\* The compound operators loop over the first _borderCount elements of both
\* operands; the operand is at least as wide as this profile (a narrower one
\* is the shape mismatch the caller has to exclude).
Fits(src) == src.n >= borderCount

AddElems(s, t) == [i \in 1..Len(s) |-> IF i <= borderCount THEN AddW(s[i], t[i]) ELSE s[i]]
SubElems(s, t) == [i \in 1..Len(s) |-> IF i <= borderCount THEN SubW(s[i], t[i]) ELSE s[i]]
MulElems(s, t) == [i \in 1..Len(s) |-> IF i <= borderCount THEN MulW(s[i], t[i]) ELSE s[i]]
DivElems(s, t) == [i \in 1..Len(s) |-> IF i <= borderCount THEN DivW(s[i], t[i]) ELSE s[i]]

\* operator+=(const VertexInfo<N, E>& other)
AddAssign(src) ==
  /\ Alive /\ Fits(src)
  /\ borderSPLength' = AddElems(borderSPLength, src.len)
  /\ borderSPCount' = AddElems(borderSPCount, src.cnt)
  /\ UNCHANGED borderCount
  /\ Done("arithmetic", "ok")

\* operator-=(const VertexInfo<N, E>& other)
SubAssign(src) ==
  /\ Alive /\ Fits(src)
  /\ borderSPLength' = SubElems(borderSPLength, src.len)
  /\ borderSPCount' = SubElems(borderSPCount, src.cnt)
  /\ UNCHANGED borderCount
  /\ Done("arithmetic", "ok")

\* operator*=(const VertexInfo<N, E>& other)
MulAssign(src) ==
  /\ Alive /\ Fits(src)
  /\ borderSPLength' = MulElems(borderSPLength, src.len)
  /\ borderSPCount' = MulElems(borderSPCount, src.cnt)
  /\ UNCHANGED borderCount
  /\ Done("arithmetic", "ok")

AllDivDefined(s, t) == \A i \in 1..borderCount : DivDefined(s[i], t[i])

\* operator/=(const VertexInfo<N, E>& other): a division that is not defined
\* either stops the process or leaves the divider's value.
DivAssign(src) ==
  /\ Alive /\ Fits(src)
  /\ \/ /\ borderSPLength' = DivElems(borderSPLength, src.len)
        /\ borderSPCount' = DivElems(borderSPCount, src.cnt)
        /\ UNCHANGED borderCount
        /\ Done("arithmetic", "ok")
     \/ /\ ~(AllDivDefined(borderSPLength, src.len) /\ AllDivDefined(borderSPCount, src.cnt))
        /\ Crash("arithmetic")

Const(num) == [i \in 1..MaxBorders + 1 |-> num]

\* operator+=(T num)
AddScalar(num) ==
  /\ Alive
  /\ borderSPLength' = AddElems(borderSPLength, Const(num))
  /\ borderSPCount' = AddElems(borderSPCount, Const(num))
  /\ UNCHANGED borderCount
  /\ Done("arithmetic", "ok")

\* operator-=(T num)
SubScalar(num) ==
  /\ Alive
  /\ borderSPLength' = SubElems(borderSPLength, Const(num))
  /\ borderSPCount' = SubElems(borderSPCount, Const(num))
  /\ UNCHANGED borderCount
  /\ Done("arithmetic", "ok")

\* operator*=(T num)
MulScalar(num) ==
  /\ Alive
  /\ borderSPLength' = MulElems(borderSPLength, Const(num))
  /\ borderSPCount' = MulElems(borderSPCount, Const(num))
  /\ UNCHANGED borderCount
  /\ Done("arithmetic", "ok")

\* operator/=(T num)
DivScalar(num) ==
  /\ Alive
  /\ \/ /\ borderSPLength' = DivElems(borderSPLength, Const(num))
        /\ borderSPCount' = DivElems(borderSPCount, Const(num))
        /\ UNCHANGED borderCount
        /\ Done("arithmetic", "ok")
     \/ /\ ~(AllDivDefined(borderSPLength, Const(num)) /\ AllDivDefined(borderSPCount, Const(num)))
        /\ Crash("arithmetic")

\* ----------------------------------------------- VertexInfo: comparison
\* A comparison that settles every count before it looks at any length: the
\* first count difference if there is one, else the first length difference.
RECURSIVE firstDifference(_, _, _, _)
firstDifference(i, n, s, t) ==
  IF i > n THEN 0
  ELSE IF SubW(s[i], t[i]) # 0 THEN SubW(s[i], t[i])
       ELSE firstDifference(i + 1, n, s, t)

compareCountsFirst(i, n, cnt, len, ocnt, olen) ==
  IF firstDifference(i, n, cnt, ocnt) # 0
  THEN firstDifference(i, n, cnt, ocnt)
  ELSE firstDifference(i, n, len, olen)

\* compare(other): the loop from index i (1-based) on; at each index the
\* count difference is tested first, then the length difference.
RECURSIVE compareFrom(_, _, _, _, _, _)
compareFrom(i, n, cnt, len, ocnt, olen) ==
  IF i > n THEN 0
  ELSE IF SubW(cnt[i], ocnt[i]) # 0 THEN SubW(cnt[i], ocnt[i])
       ELSE IF SubW(len[i], olen[i]) # 0 THEN SubW(len[i], olen[i])
            ELSE compareFrom(i + 1, n, cnt, len, ocnt, olen)

compareValue == compareFrom(1, borderCount, borderSPCount, borderSPLength, other.cnt, other.len)

Compared(op, value) ==
  /\ Alive
  /\ other.n = borderCount
  /\ cmp' = [op |-> op, val |-> value]
  /\ call' = op
  /\ UNCHANGED <<borderCount, borderSPLength, borderSPCount, outcome, other>>
  /\ UNCHANGED lvars

compare == Compared("compare", compareValue)
OperatorEq == Compared("==", compareValue = 0)
OperatorNe == Compared("!=", compareValue # 0)
OperatorLt == Compared("<", compareValue < 0)
OperatorGt == Compared(">", compareValue > 0)
OperatorLe == Compared("<=", compareValue <= 0)
OperatorGe == Compared(">=", compareValue >= 0)

\* Two profiles of one width, as the setters can leave them.
CompareInit ==
  /\ NoRun
  /\ borderCount \in 0..MaxBorders
  /\ borderSPLength \in [1..borderCount -> InVals]
  /\ borderSPCount \in [1..borderCount -> InVals]
  /\ \E l \in [1..borderCount -> {0, 1}], c \in [1..borderCount -> {0, 1}] :
       other = [n |-> borderCount, len |-> l, cnt |-> c]
  /\ call = "VertexInfo"
  /\ outcome = "ok"
  /\ cmp = NoCmp

CompareNext ==
  \/ compare
  \/ OperatorEq
  \/ OperatorNe
  \/ OperatorLt
  \/ OperatorGt
  \/ OperatorLe
  \/ OperatorGe

SpecCompare == CompareInit /\ [][CompareNext]_vars

\* ------------------------------------------- VertexInfo: the object's life
ProfileNext ==
  \/ \E src \in Operands : CopyConstruct(src)
  \/ \E src \in Operands : Assign(src)
  \/ \E i \in Idx, v \in SetVals : setBorderSPLength(i, v)
  \/ \E i \in Idx : getBorderSPLength(i)
  \/ \E i \in Idx, v \in SetVals : setBorderSPCount(i, v)
  \/ \E i \in Idx : getBorderSPCount(i)
  \/ getMinBorderSPLength
  \/ normalize
  \/ reset
  \/ borders
  \/ \E src \in Operands : AddAssign(src)
  \/ \E src \in Operands : SubAssign(src)
  \/ \E src \in Operands : MulAssign(src)
  \/ \E src \in Operands : DivAssign(src)
  \/ \E num \in InVals : AddScalar(num)
  \/ \E num \in InVals : SubScalar(num)
  \/ \E num \in InVals : MulScalar(num)
  \/ \E num \in InVals : DivScalar(num)

SpecProfile == VertexInfoInit /\ [][ProfileNext]_vars

\* =============================================== LouvainEvaluator
Attempts == 0..(parallelism - 1)
\* The modularities the attempts report.
Mods == {0, 1}

\* The index (1-based) of attempt i in the vectors p, improvements, ...
At(i) == i + 1

\* ------------------------------------------ collaborators (Partition.h)
\* Partition<V, W>(g, precision): every node its own community; nothing run.
FreshPartition == [improved |-> FALSE, mod |-> 0]

\* No partition has been read by an aggregation.
NoPartition == [attempt |-> -1, n2c |-> <<>>]

\* Partition::n2c after one_level() on a graph of nb nodes: a community id
\* below nb for each of the nb nodes.
PartitionAssignments(nb) == [1..nb -> 0..(nb - 1)]

\* Partition::partition2graph(): one node per community of the partition.
AggregatedNodes(pn2c) == Cardinality({pn2c[node] : node \in 1..Len(pn2c)})

\* ------------------------------------------------- renumber_communities
\* Every vector index renumber_communities uses is inside its vector.
RenumberInBounds(comms, pn2c) ==
  /\ \A node \in 1..Len(pn2c) : pn2c[node] >= 0 /\ pn2c[node] < Len(pn2c)
  /\ \A i \in 1..Len(comms) : comms[i] >= 0 /\ comms[i] < Len(pn2c)

\* The first loop: renumber[c] is -1 plus the number of nodes in community c.
RenumberMarks(pn2c) ==
  [c \in 1..Len(pn2c) |-> -1 + Cardinality({node \in 1..Len(pn2c) : pn2c[node] = c - 1})]

\* A renumbering that forgets the second loop and uses the marks themselves.
RenumberByCount(marks) == marks

\* The second loop: the marked entries are numbered final++ in index order.
RenumberFinal(marks) ==
  [c \in 1..Len(marks) |->
     IF marks[c] # -1
     THEN Cardinality({d \in 1..(c - 1) : marks[d] # -1})
     ELSE marks[c]]

\* A third loop that forgets to go through the winner's assignment:
\* comms[i] = renumber[comms[i]].
renumber_without_compose(comms, pn2c) ==
  LET renumber == RenumberFinal(RenumberMarks(pn2c))
  IN [i \in 1..Len(comms) |-> renumber[comms[i] + 1]]

\* The third loop: comms[i] = renumber[n2c[comms[i]]].
renumber_communities(comms, pn2c) ==
  LET renumber == RenumberFinal(RenumberMarks(pn2c))
  IN [i \in 1..Len(comms) |-> renumber[pn2c[comms[i] + 1] + 1]]

\* ----------------------------------------------------------- build_result
MaxOf(v) ==
  IF \A i \in 1..Len(v) : v[i] <= 0 THEN 0
  ELSE CHOOSE m \in {v[i] : i \in 1..Len(v)} : \A i \in 1..Len(v) : v[i] <= m

RECURSIVE AddedTo(_, _, _)
\* The vertex ids add()ed to community c by the loop from vertex i on.
AddedTo(c, v, i) ==
  IF i > Len(v) THEN <<>>
  ELSE IF v[i] = c THEN <<i - 1>> \o AddedTo(c, v, i + 1)
       ELSE AddedTo(c, v, i + 1)

build_result(v) == [c \in 1..(MaxOf(v) + 1) |-> AddedTo(c - 1, v, 1)]

\* ----------------------------------------------------------- evaluateGraph
\* Lines 83-93: the state before the do-while loop, for an input graph of
\* 0..MaxNodes nodes.
EvaluateInit ==
  /\ NoProfile
  /\ nb_nodes \in 0..MaxNodes
  /\ n2c = [i \in 1..nb_nodes |-> i - 1]
  /\ p = [i \in 1..parallelism |-> FreshPartition]
  /\ improvements = [i \in 1..parallelism |-> TRUE]
  /\ modularities = [i \in 1..parallelism |-> 0]
  /\ tpc = [i \in 1..parallelism |-> "idle"]
  /\ word = [i \in 1..parallelism |-> <<>>]
  /\ pc = "parallel"
  /\ best_i = 0
  /\ outer_best_i = 0
  /\ improvement = FALSE
  /\ mod = FreshPartition.mod
  /\ new_mod = 0
  /\ level = 0
  /\ used = NoPartition
  /\ result = <<>>

\* Thread i of the parallel for: p[i].one_level() returns r, and the thread
\* loads the storage word of improvements to change its bit.
OneLevel(i, r) ==
  /\ pc = "parallel"
  /\ level < MaxLevel
  /\ tpc[At(i)] = "idle"
  /\ p' = [p EXCEPT ![At(i)].improved = r]
  /\ word' = [word EXCEPT ![At(i)] = improvements]
  /\ tpc' = [tpc EXCEPT ![At(i)] = "loaded"]
  /\ UNCHANGED <<nb_nodes, n2c, improvements, modularities, pc, best_i, outer_best_i,
                 improvement, mod, new_mod, level, used, result>>
  /\ UNCHANGED pvars

\* Thread i stores the word it loaded with bit i set to what one_level()
\* returned, then writes modularities[i] = p[i].modularity() (m).
Record(i, m) ==
  /\ pc = "parallel"
  /\ tpc[At(i)] = "loaded"
  /\ improvements' = [word[At(i)] EXCEPT ![At(i)] = p[At(i)].improved]
  /\ p' = [p EXCEPT ![At(i)].mod = m]
  /\ modularities' = [modularities EXCEPT ![At(i)] = m]
  /\ word' = [word EXCEPT ![At(i)] = <<>>]
  /\ tpc' = [tpc EXCEPT ![At(i)] = "done"]
  /\ UNCHANGED <<nb_nodes, n2c, pc, best_i, outer_best_i, improvement, mod, new_mod,
                 level, used, result>>
  /\ UNCHANGED pvars

\* Lines 111-114: the scan for the best attempt, from index `from` on with
\* `best` the best so far.
RECURSIVE ScanBest(_, _, _)
ScanBest(from, best, mods) ==
  IF from >= parallelism THEN best
  ELSE IF mods[At(from)] > mods[At(best)] THEN ScanBest(from + 1, from, mods)
       ELSE ScanBest(from + 1, best, mods)

\* A selection that starts from the winner of the level before.
SelectFromLastBest(mods) == ScanBest(0, best_i, mods)

SelectBest(mods) == ScanBest(1, 0, mods)

\* Lines 111-119, after the barrier of the parallel for: selection, then
\* the aggregation of the winner. a is p[best_i].n2c, the winner's assignment.
Aggregate(a) ==
  /\ pc = "parallel"
  /\ \A i \in Attempts : tpc[At(i)] = "done"
  /\ LET b == SelectBest(modularities)
     IN /\ best_i' = b
        /\ improvement' = improvements[At(b)]
        /\ new_mod' = p[At(b)].mod
        /\ used' = [attempt |-> b, n2c |-> a]
        /\ nb_nodes' = AggregatedNodes(a)
        /\ IF RenumberInBounds(n2c, a)
           THEN /\ n2c' = renumber_communities(n2c, a)
                /\ pc' = "rebuild"
           ELSE /\ n2c' = n2c
                /\ pc' = "out_of_bounds"
  /\ UNCHANGED <<p, improvements, modularities, tpc, word, outer_best_i, mod, level, result>>
  /\ UNCHANGED pvars

\* Lines 120-129: fresh attempts on the aggregated graph, mod = new_mod,
\* level++.
Rebuild ==
  /\ pc = "rebuild"
  /\ p' = [i \in 1..parallelism |-> FreshPartition]
  /\ tpc' = [i \in 1..parallelism |-> "idle"]
  /\ used' = NoPartition
  /\ mod' = new_mod
  /\ level' = level + 1
  /\ pc' = "while"
  /\ UNCHANGED <<nb_nodes, n2c, improvements, modularities, word, best_i, outer_best_i,
                 improvement, new_mod, result>>
  /\ UNCHANGED pvars

\* A loop that goes on while the winner did not improve.
WhileNoImprovement ==
  /\ pc = "while"
  /\ pc' = IF improvement THEN "return" ELSE "parallel"
  /\ UNCHANGED <<nb_nodes, n2c, p, improvements, modularities, tpc, word, best_i,
                 outer_best_i, improvement, mod, new_mod, level, used, result>>
  /\ UNCHANGED pvars

\* Line 130: while (improvement)
While ==
  /\ pc = "while"
  /\ pc' = IF improvement THEN "parallel" ELSE "return"
  /\ UNCHANGED <<nb_nodes, n2c, p, improvements, modularities, tpc, word, best_i,
                 outer_best_i, improvement, mod, new_mod, level, used, result>>
  /\ UNCHANGED pvars

\* Line 140: return build_result(n2c, graph)
Return ==
  /\ pc = "return"
  /\ result' = build_result(n2c)
  /\ pc' = "done"
  /\ UNCHANGED <<nb_nodes, n2c, p, improvements, modularities, tpc, word, best_i,
                 outer_best_i, improvement, mod, new_mod, level, used>>
  /\ UNCHANGED pvars

EvaluateNext ==
  \/ \E i \in Attempts, r \in BOOLEAN : OneLevel(i, r)
  \/ \E i \in Attempts, m \in Mods : Record(i, m)
  \/ \E a \in PartitionAssignments(nb_nodes) : Aggregate(a)
  \/ Rebuild
  \/ While
  \/ Return

SpecEvaluate == EvaluateInit /\ [][EvaluateNext]_vars

\* The threads of the parallel for and the calling thread all keep running.
FairSpecEvaluate == SpecEvaluate /\ WF_vars(EvaluateNext)

\* ======================================================= properties
\* ---------------------------------------------------------------- C1
\* The differences compare looks at, in the order it looks at them: count
\* then length at index 0, count then length at index 1, ...
Differences ==
  [k \in 1..(2 * borderCount) |->
     IF k % 2 = 1
     THEN SubW(borderSPCount[(k + 1) \div 2], other.cnt[(k + 1) \div 2])
     ELSE SubW(borderSPLength[k \div 2], other.len[k \div 2])]

FirstNonZero(d) ==
  IF \A k \in 1..Len(d) : d[k] = 0 THEN 0
  ELSE d[CHOOSE k \in 1..Len(d) : d[k] # 0 /\ \A j \in 1..(k - 1) : d[j] = 0]

CountDifferences == [i \in 1..borderCount |-> SubW(borderSPCount[i], other.cnt[i])]
LengthDifferences == [i \in 1..borderCount |-> SubW(borderSPLength[i], other.len[i])]

SameProfile == borderSPCount = other.cnt /\ borderSPLength = other.len

\* The six operators as the sign tests of the value v.
SignTests(v) ==
  /\ cmp.op = "==" => cmp.val = (v = 0)
  /\ cmp.op = "!=" => cmp.val = (v # 0)
  /\ cmp.op = "<" => cmp.val = (v < 0)
  /\ cmp.op = ">" => cmp.val = (v > 0)
  /\ cmp.op = "<=" => cmp.val = (v <= 0)
  /\ cmp.op = ">=" => cmp.val = (v >= 0)

\* C1 as stated: every count difference has priority over every length
\* difference: compare returns the first count difference whatever the
\* lengths are, the first length difference only when all counts are equal,
\* 0 only when the profiles are equal; the operators are its sign tests.
C1_CountsBeforeLengths ==
  cmp.op # "none" =>
    LET v == IF FirstNonZero(CountDifferences) # 0
             THEN FirstNonZero(CountDifferences)
             ELSE FirstNonZero(LengthDifferences)
    IN /\ cmp.op = "compare" => cmp.val = v /\ (cmp.val = 0 <=> SameProfile)
       /\ SignTests(v)

\* C1 amended: compare returns the first nonzero difference in index order,
\* at each index the count difference before the length difference (so a
\* length difference at an earlier index is returned before a count
\* difference at a later one); it returns 0 only when every count and every
\* length are equal; the operators are the sign tests of that value.
C1_IndexOrderCompare ==
  cmp.op # "none" =>
    LET v == FirstNonZero(Differences)
    IN /\ cmp.op = "compare" => cmp.val = v /\ (cmp.val = 0 <=> SameProfile)
       /\ SignTests(v)

\* compare has returned a length difference of index 0 although the counts
\* differ at index 1.
C1_Witness ==
  /\ cmp.op # "none"
  /\ cmp.op = "compare"
  /\ borderCount >= 2
  /\ borderSPCount[1] = other.cnt[1]
  /\ borderSPLength[1] # other.len[1]
  /\ borderSPCount[2] # other.cnt[2]
  /\ cmp.val = SubW(borderSPLength[1], other.len[1])
  /\ cmp.val # SubW(borderSPCount[2], other.cnt[2])

\* ---------------------------------------------------------------- C2
AccessorStep(i) ==
  \/ \E v \in SetVals : setBorderSPLength(i, v)
  \/ getBorderSPLength(i)
  \/ \E v \in SetVals : setBorderSPCount(i, v)
  \/ getBorderSPCount(i)

\* C2: an accessor called with an index outside [0, borderCount) ends in the
\* out-of-range error and changes neither the width nor any length or count;
\* called with an index inside, it never raises the error.
C2_OutOfRangeSignalled ==
  [][\A i \in Idx :
       AccessorStep(i) =>
         IF i < 0 \/ i >= borderCount
         THEN /\ outcome' = "out_of_range"
              /\ UNCHANGED <<borderCount, borderSPLength, borderSPCount>>
         ELSE outcome' # "out_of_range"]_vars

\* ---------------------------------------------------------------- C8
\* An independent statement of "the minimum length is 0".
MinimumIsZero(lengths) ==
  Len(lengths) > 0 =>
    /\ \E i \in 1..Len(lengths) : lengths[i] = 0
    /\ \A i \in 1..Len(lengths) : lengths[i] >= 0

\* No length exceeds the minimum by more than the type holds: length[i] - min
\* does not overflow.
SpreadFits(lengths) ==
  \A i, j \in 1..Len(lengths) : lengths[i] - lengths[j] <= WMax

NormalizePost ==
  /\ MinimumIsZero(borderSPLength')
  /\ MinBorderSPLength(borderCount', borderSPLength') = 0
  /\ Normalized(borderCount', borderSPLength') = borderSPLength'
  /\ borderSPCount' = borderSPCount
  /\ borderCount = 0 => borderSPLength' = borderSPLength

\* C8 as stated: for any lengths, after normalize() the minimum length is 0
\* and a second normalize() changes nothing; a profile of width 0 has minimum
\* 0 and is left as it is.
C8_NormalizeAnyLengths ==
  [][normalize => NormalizePost]_vars

\* C8 amended: the same for every profile whose lengths exceed their minimum
\* by no more than the largest value of the length type (length[i] - min does
\* not overflow), negative lengths included.
C8_NormalizeWithinRange ==
  [][(normalize /\ SpreadFits(borderSPLength)) => NormalizePost]_vars

\* normalize() has run on a profile of two or more borders and left lengths
\* that are not all 0.
C8_Witness ==
  /\ call = "normalize"
  /\ outcome = "ok"
  /\ borderCount >= 2
  /\ MinimumIsZero(borderSPLength)
  /\ \E i \in 1..borderCount : borderSPLength[i] > 0

\* ---------------------------------------------------------------- C9
SizesMatch ==
  /\ Len(borderSPLength) = borderCount
  /\ Len(borderSPCount) = borderCount

ResetState ==
  call = "reset" =>
    /\ \A i \in 1..borderCount : borderSPLength[i] = 0
    /\ \A i \in 1..borderCount : borderSPCount[i] = 0

CopiedFrom(src) ==
  /\ borderCount' = src.n
  /\ borderSPLength' = [i \in 1..src.n |-> src.len[i]]
  /\ borderSPCount' = [i \in 1..src.n |-> src.cnt[i]]

WidthStep ==
  /\ \A src \in Operands : Assign(src) => CopiedFrom(src)
  /\ \A src \in Operands : CopyConstruct(src) => CopiedFrom(src)
  /\ borderCount' # borderCount => call' \in {"operator=", "VertexInfo"}
  /\ reset => borderCount' = borderCount

\* C9: after any sequence of operations both vectors have exactly borderCount
\* elements; borderCount of an object changes only in an assignment from a
\* profile of another width, after which the width and every element are the
\* source's (a copy-constructed profile has its source's width and elements);
\* reset leaves every length and count 0 and keeps borderCount.
C9_WidthInvariant ==
  /\ [](SizesMatch /\ ResetState)
  /\ [][WidthStep]_vars

\* An assignment has left a profile of one border with the source's elements.
C9_Witness ==
  /\ call = "operator="
  /\ borderCount = 1
  /\ SizesMatch
  /\ borderSPLength[1] = -1
  /\ borderSPCount[1] = 1

\* ---------------------------------------------------------------- C3
Ids(v) == {v[i] : i \in 1..Len(v)}

DenseIds(v) == Ids(v) = 0..(Cardinality(Ids(v)) - 1)

\* C3: after the aggregation step of every level, and so in the final
\* output, the community ids n2c holds are exactly 0..k-1, k the number of
\* distinct communities.
C3_DenseIds ==
  pc \in {"rebuild", "while", "parallel", "return", "done"} => DenseIds(n2c)

\* An aggregation has read an assignment that uses only id 1 and left both
\* original vertices in community 0.
C3_Witness ==
  /\ pc = "rebuild"
  /\ used.n2c = <<1, 1>>
  /\ n2c = <<0, 0>>

\* ---------------------------------------------------------------- C4
\* The attempt of highest modularity, the lowest index among equals.
LowestArgMax(mods) ==
  CHOOSE i \in Attempts :
    /\ \A j \in Attempts : mods[At(j)] <= mods[At(i)]
    /\ \A j \in Attempts : j < i => mods[At(j)] < mods[At(i)]

\* C4: the winner of a level is the attempt of highest modularity of that
\* level, the lowest index among equals, whatever won the level before; the
\* improvement flag, the new modularity, the aggregated graph and the
\* assignment are those of the winner's entries.
C4_WinnerSelected ==
  pc = "rebuild" =>
    /\ best_i = LowestArgMax(modularities)
    /\ improvement = improvements[At(best_i)]
    /\ new_mod = modularities[At(best_i)]
    /\ new_mod = p[At(best_i)].mod
    /\ used.attempt = best_i
    /\ nb_nodes = Cardinality(Ids(used.n2c))

\* The second level has selected attempt 0 although attempt 1 has the
\* same modularity.
C4_Witness ==
  /\ pc = "rebuild"
  /\ level = 1
  /\ modularities[At(0)] = modularities[At(1)]
  /\ modularities[At(0)] = 1
  /\ best_i = 0

\* ---------------------------------------------------------------- C5
LoopState ==
  /\ pc \in {"return", "done"} => level >= 1 /\ ~improvement
  /\ (pc = "parallel" /\ level > 0) => improvement
  /\ pc # "done" => result = <<>>
  /\ pc = "done" => result = build_result(n2c)

LoopStep ==
  /\ level' # level => level' = level + 1 /\ pc = "rebuild" /\ pc' = "while"
  /\ (pc = "while" /\ pc' # pc) => pc' = (IF improvement THEN "parallel" ELSE "return")
  /\ pc' = "return" => pc \in {"while", "return"}
  /\ pc' = "done" => pc \in {"return", "done"}

C6_RecordedIsProduced ==
  (pc = "rebuild" \/ (pc = "parallel" /\ \A i \in Attempts : tpc[At(i)] = "done")) =>
    /\ \A i \in Attempts : tpc[At(i)] = "done"
    /\ \A i \in Attempts : improvements[At(i)] = p[At(i)].improved
    /\ \A i \in Attempts : modularities[At(i)] = p[At(i)].mod

\* ---------------------------------------------------------------- C7
RECURSIVE Occurrences(_, _)
Occurrences(x, seq) ==
  IF seq = <<>> THEN 0
  ELSE (IF Head(seq) = x THEN 1 ELSE 0) + Occurrences(x, Tail(seq))

\* C7: the result is a partition of the original vertices: as many
\* communities as n2c has distinct ids, every vertex added exactly once, to
\* the community at index n2c[v], no community empty, no other id added.
C7_ResultIsPartition ==
  pc = "done" =>
    /\ Len(result) = Cardinality(Ids(n2c))
    /\ \A c \in 1..Len(result) : result[c] # <<>>
    /\ \A c \in 1..Len(result) : \A k \in 1..Len(result[c]) :
         result[c][k] \in 0..(Len(n2c) - 1)
    /\ \A v \in 0..(Len(n2c) - 1) : \A c \in 1..Len(result) :
         Occurrences(v, result[c]) = (IF c = n2c[v + 1] + 1 THEN 1 ELSE 0)

\* --------------------------------------------------------------- C10
\* The dense number of id c among the ids assignment a uses: the number of
\* used ids below c.
DenseRank(a, c) == Cardinality({d \in Ids(a) : d < c})

Identity(n) == [i \in 1..n |-> i - 1]

AggregationStep ==
  (pc = "parallel" /\ pc' = "rebuild") =>
    LET a == used'.n2c
    IN /\ Len(a) = nb_nodes
       /\ \A v \in 1..Len(n2c) : n2c[v] \in 0..(nb_nodes - 1)
       /\ n2c' = [v \in 1..Len(n2c) |-> DenseRank(a, a[n2c[v] + 1])]
       /\ \A u, v \in 1..Len(n2c) : n2c[u] = n2c[v] => n2c'[u] = n2c'[v]
       /\ Cardinality(Ids(n2c')) <= Cardinality(Ids(n2c))
       /\ a = Identity(nb_nodes) => n2c' = n2c

\* C10: every aggregation replaces n2c by the winner's assignment applied to
\* it, renumbered densely in ascending order; no index of
\* renumber_communities leaves its vector; vertices that share a community
\* keep sharing one; the communities never get more; a winner that keeps
\* every node on its own leaves n2c as it is.
C10_Composition ==
  /\ [](pc # "out_of_bounds")
  /\ [][AggregationStep]_vars

\* The second level has read the assignment that swaps the two nodes and
\* brought n2c, swapped by the first level, back to the identity.
C10_Witness ==
  /\ pc = "rebuild"
  /\ level = 1
  /\ used.n2c = <<1, 0>>
  /\ n2c = <<0, 1>>

====
